---------------------------- MODULE Spec2Model ----------------------------
(***************************************************************************)
(* A model of the CSV resource parser (src/csv_parser.py, class CSVParser) *)
(* and of the resource uploader (src/resource_uploader.py, class           *)
(* ResourceUploader).                                                      *)
(*                                                                         *)
(* Strings whose characters matter (category cells, business names) are    *)
(* sequences of one-character strings, so that str.split and str.strip are *)
(* computed and not assumed.  File paths and column names are only ever    *)
(* compared for equality and are TLA+ strings.                             *)
(***************************************************************************)
EXTENDS Integers, Sequences, FiniteSets, TLC

VARIABLES
    pc,             \* position of CSVParser.parse
    files,          \* self.files
    resources,      \* self.resources
    verbose_flag,   \* self.verbose_flag
    post_flag,      \* self.post_flag
    rollback_flag,  \* self.rollback_flag
    categories,     \* self.categories
    subcategories,  \* self.subcategories
    err_log,        \* self.err_log
    raised,         \* the exception that left CSVParser.parse, if any
    n_rows,         \* the value _parse_all returned to parse
    queue,          \* the event loop's ready queue (FIFO of handles)
    running,        \* the file whose _parse_csv coroutine is executing
    task,           \* per file: the state of its _parse_csv coroutine
    outer,          \* the future asyncio.gather returned
    origin,         \* history: origin[i] is the file whose task appended resources[i]
    fetches,        \* history: number of calls of all_categories()
    probe,          \* one application of _validate_category_field (SpecCat)
    up              \* the state of ResourceUploader.upload (SpecUpload)

parserVars == <<files, resources, verbose_flag, post_flag, rollback_flag,
                categories, subcategories, err_log>>
loopVars == <<queue, running, task, outer>>
vars == <<pc, files, resources, verbose_flag, post_flag, rollback_flag,
          categories, subcategories, err_log, raised, n_rows, queue, running,
          task, outer, origin, fetches, probe, up>>

(***************************************************************************)
(* Bounds of the model.                                                    *)
(***************************************************************************)
MaxArgs == 2      \* command-line arguments after the program name
MaxRows == 2      \* data lines read from one file
MaxLen == 3       \* characters of a raw category cell (SpecCat)
MaxUpload == 3    \* records handed to upload (SpecUpload)

(***************************************************************************)
(* Strings.                                                                *)
(***************************************************************************)
\* Python's None, as a cell value: no string has a character of that name.
None == <<"None">>

Range(s) == {s[i] : i \in DOMAIN s}

\* str.strip(): leading and trailing blanks removed.
RECURSIVE LStrip(_)
LStrip(s) == IF s # <<>> /\ Head(s) = " " THEN LStrip(Tail(s)) ELSE s

RECURSIVE RStrip(_)
RStrip(s) ==
    IF s # <<>> /\ s[Len(s)] = " " THEN RStrip(SubSeq(s, 1, Len(s) - 1)) ELSE s

Trim(s) == RStrip(LStrip(s))

\* str.split(sep) for a one-character separator: "".split("+") is [""],
\* and n separators give n + 1 parts, empty parts included.
RECURSIVE Split(_, _)
Split(s, sep) ==
    IF \A i \in DOMAIN s : s[i] # sep
    THEN <<s>>
    ELSE LET k == CHOOSE i \in DOMAIN s :
                      s[i] = sep /\ \A j \in 1..(i - 1) : s[j] # sep
         IN  <<SubSeq(s, 1, k - 1)>> \o Split(SubSeq(s, k + 1, Len(s)), sep)

\* sep.join(parts)
RECURSIVE Join(_, _)
Join(parts, sep) ==
    IF parts = <<>> THEN <<>>
    ELSE IF Len(parts) = 1 THEN parts[1]
    ELSE parts[1] \o <<sep>> \o Join(Tail(parts), sep)


(***************************************************************************)
(* The command line and the file system that _process_args walks.          *)
(***************************************************************************)
\* sys.argv[1:] is drawn from these arguments.
ArgChoices == {"a.csv", "d", "nope.csv", "-V", "--upload"}

Argvs == UNION {[1..n -> ArgChoices] : n \in 0..MaxArgs}

\* The CSV files of the file system: "a.csv", and "c.csv" in directory "d"
\* beside "notes.txt".  "nope.csv" does not exist.
CsvFiles == {"a.csv", "d/c.csv"}

\* s.startswith("-")
StartsWithDash(s) == s \in {"-V", "--upload"}

\* flag.lower()
Lower(flag) == IF flag = "-V" THEN "-v" ELSE flag

\* fp.endswith(".csv")
EndsWithCsv(fp) == fp \in {"a.csv", "d/c.csv", "nope.csv"}

\* os.path.isfile(fp)
IsFile(fp) == fp \in {"a.csv", "d/c.csv", "d/notes.txt"}

\* os.path.isdir(fp)
IsDir(fp) == fp = "d"

\* os.path.exists(fp)
Exists(fp) == IsFile(fp) \/ IsDir(fp)

\* os.listdir(fp)
ListDir(fp) == IF fp = "d" THEN <<"c.csv", "notes.txt">> ELSE <<>>

\* f"{fp}/{p}"
PathJoin(fp, p) ==
    CASE fp = "d" /\ p = "c.csv" -> "d/c.csv"
      [] fp = "d" /\ p = "notes.txt" -> "d/notes.txt"
      [] OTHER -> "nope.csv"

\* The entry _process_fp logs for a path that does not exist.
PathMsg(fp) == [what |-> "path_does_not_exist", fp |-> fp, field |-> ""]

\* The entry _validate_column_names logs for one invalid header name.
FieldMsg(fp, field) == [what |-> "not_a_valid_field", fp |-> fp, field |-> field]

\* The entry _validate_required_fields logs for one missing key; the text
\* names the field only, not the file.
RequiredMsg(field) == [what |-> "required_row", fp |-> "", field |-> field]

NoExc == [kind |-> "none"]

\* _set_flag: st is the parser state being built by _process_args.
SetFlag(flag, st) ==
    CASE Lower(flag) \in {"-v", "--verbose"} -> [st EXCEPT !.verbose_flag = TRUE]
      [] Lower(flag) = "--upload" -> [st EXCEPT !.post_flag = TRUE]
      [] Lower(flag) \in {"-r", "--rollback"} -> [st EXCEPT !.rollback_flag = TRUE]
      [] OTHER -> st

\* _process_fp: the state after the call, its return value added to
\* st.n_failed.  A directory's entries are processed in listdir order.
RECURSIVE ProcessFp(_, _)
RECURSIVE ProcessDir(_, _, _)
\* A variant of ProcessFp: a missing path is logged and not counted.
ProcessFpNotCounted(fp, st) ==
    IF EndsWithCsv(fp) /\ IsFile(fp)
    THEN [st EXCEPT !.files = @ \cup {fp}]
    ELSE IF IsDir(fp)
    THEN ProcessDir(fp, ListDir(fp), st)
    ELSE IF Exists(fp)
    THEN st
    ELSE [st EXCEPT !.err_log = Append(@, PathMsg(fp))]

ProcessFp(fp, st) ==
    IF EndsWithCsv(fp) /\ IsFile(fp)
    THEN [st EXCEPT !.files = @ \cup {fp}]
    ELSE IF IsDir(fp)
    THEN ProcessDir(fp, ListDir(fp), st)
    ELSE IF Exists(fp)
    THEN st
    ELSE [st EXCEPT !.err_log = Append(@, PathMsg(fp)), !.n_failed = @ + 1]

ProcessDir(fp, entries, st) ==
    IF entries = <<>> THEN st
    ELSE ProcessDir(fp, Tail(entries), ProcessFp(PathJoin(fp, Head(entries)), st))

\* The loop of _process_args over sys.argv[1:].
RECURSIVE ProcessArgv(_, _)
ProcessArgv(argv, st) ==
    IF argv = <<>> THEN st
    ELSE IF StartsWithDash(Head(argv))
    THEN ProcessArgv(Tail(argv), SetFlag(Head(argv), st))
    ELSE ProcessArgv(Tail(argv), ProcessFp(Head(argv), st))

\* _process_args, run by parse before anything else.
ProcessArgs ==
    /\ pc = "start"
    /\ \E argv \in Argvs :
         IF Len(argv) < 1
         THEN /\ pc' = "failed"
              /\ raised' = [kind |-> "Usage"]
              /\ UNCHANGED parserVars
         ELSE LET st == ProcessArgv(argv,
                            [files |-> files, err_log |-> err_log,
                             verbose_flag |-> verbose_flag,
                             post_flag |-> post_flag,
                             rollback_flag |-> rollback_flag, n_failed |-> 0])
              IN  /\ files' = st.files
                  /\ err_log' = st.err_log
                  /\ verbose_flag' = st.verbose_flag
                  /\ post_flag' = st.post_flag
                  /\ rollback_flag' = st.rollback_flag
                  /\ UNCHANGED <<resources, categories, subcategories>>
                  /\ IF st.n_failed > 0
                     THEN /\ pc' = "failed"
                          /\ raised' = [kind |-> "FileNotFoundError",
                                        listed |-> st.err_log]
                     ELSE /\ pc' = "args_done"
                          /\ UNCHANGED raised
    /\ UNCHANGED <<n_rows, loopVars, origin, fetches, probe, up>>

(***************************************************************************)
(* The vocabulary.                                                         *)
(***************************************************************************)
\* What all_categories() returns: two lists of names.
FetchedCategories == << <<"T">>, <<"M">>, <<"T">> >>
FetchedSubcategories == << <<"m">> >>

\* parse, lines 54-57: the vocabulary is fetched and turned into two sets.
\* The request is a network call and may fail.
FetchCategories ==
    /\ pc = "args_done"
    /\ fetches' = fetches + 1
    /\ \/ /\ categories' = Range(FetchedCategories)
          /\ subcategories' = Range(FetchedSubcategories)
          /\ pc' = "vocab"
          /\ UNCHANGED raised
       \/ /\ pc' = "failed"
          /\ raised' = [kind |-> "FetchError"]
          /\ UNCHANGED <<categories, subcategories>>
    /\ UNCHANGED <<files, resources, verbose_flag, post_flag, rollback_flag,
                   err_log, n_rows, loopVars, origin, probe, up>>

(***************************************************************************)
(* Rows: csv.DictReader, and the validators of one row.                    *)
(***************************************************************************)
\* ResourceDto.__annotations__.keys(): the attributes _parse_row sets.
Attrs ==
    {"id", "businessName", "streetAddress", "state", "city", "zipCode",
     "phone", "webSite", "description", "category", "subCategory",
     "startGrade", "endGrade", "careerInterest", "cost", "instruction",
     "boarding", "gender", "locationLimit"}

\* cfg.allowed_fields: header names allowed beside the attributes.
allowed_fields == {"GRADELEVEL"}

\* The key csv.DictReader files surplus cells under (restkey = None).
RestKey == "<restkey>"

\* One row of csv.DictReader: dict(zip(fieldnames, line)), the surplus cells
\* of a long line under restkey, the names a short line leaves without a
\* cell set to restval = None.  A name given twice keeps its last cell.
DictRow(fieldnames, line) ==
    LET names == Range(fieldnames)
        last(n) == CHOOSE i \in DOMAIN fieldnames :
                       /\ fieldnames[i] = n
                       /\ \A j \in DOMAIN fieldnames : fieldnames[j] = n => j <= i
        keys == names \cup (IF Len(line) > Len(fieldnames) THEN {RestKey} ELSE {})
    IN  [k \in keys |->
            IF k \notin names
            THEN SubSeq(line, Len(fieldnames) + 1, Len(line))
            ELSE IF last(k) > Len(line) THEN None ELSE line[last(k)]]

Required == <<"businessName", "category", "subCategory">>

\* The required fields that are no key of the row, in the order checked.
MissingRequired(row) == SelectSeq(Required, LAMBDA f : f \notin DOMAIN row)

\* A variant of ValidateRequiredFields that stops at the first missing field.
ValidateRequiredFieldsFirstOnly(row, log) ==
    LET missing == MissingRequired(row)
        newlog == IF missing = <<>> THEN log
                  ELSE Append(log, RequiredMsg(missing[1]))
    IN  [err |-> missing # <<>>, log |-> newlog,
         exc |-> [kind |-> "MissingRequiredField", listed |-> newlog]]

\* _validate_required_fields: every missing field is logged, then the
\* exception carries the whole of self.err_log.
ValidateRequiredFields(row, log) ==
    LET missing == MissingRequired(row)
        newlog == log \o [i \in 1..Len(missing) |-> RequiredMsg(missing[i])]
    IN  [err |-> missing # <<>>, log |-> newlog,
         exc |-> [kind |-> "MissingRequiredField", listed |-> newlog]]

\* The first element of parts that is not in vocabulary, as an index; 0 if
\* every part is in it.
FirstBad(parts, vocabulary) ==
    IF \A i \in DOMAIN parts : parts[i] \in vocabulary THEN 0
    ELSE CHOOSE i \in DOMAIN parts :
             /\ parts[i] \notin vocabulary
             /\ \A j \in 1..(i - 1) : parts[j] \in vocabulary

\* A variant of ValidateCategoryField: each part is stripped before the
\* lookup.
ValidateCategoryFieldTrimmed(cats, subcategory) ==
    IF cats = None THEN [ok |-> FALSE, value |-> <<>>,
                         exc |-> [kind |-> "AttributeError"]]
    ELSE LET raw == Split(cats, "+")
             parts == [i \in DOMAIN raw |-> Trim(raw[i])]
             bad == FirstBad(parts, IF subcategory THEN subcategories
                                    ELSE categories)
         IN  IF bad = 0
             THEN [ok |-> TRUE, value |-> parts, exc |-> NoExc]
             ELSE [ok |-> FALSE, value |-> <<>>,
                   exc |-> [kind |-> IF subcategory THEN "UnknownSubcategory"
                                     ELSE "UnknownCategory",
                            token |-> parts[bad]]]

\* A variant of ValidateCategoryField that looks at the first part only.
ValidateCategoryFieldHeadOnly(cats, subcategory) ==
    IF cats = None THEN [ok |-> FALSE, value |-> <<>>,
                         exc |-> [kind |-> "AttributeError"]]
    ELSE LET parts == Split(cats, "+")
             bad == FirstBad(<<parts[1]>>, IF subcategory THEN subcategories
                                           ELSE categories)
         IN  IF bad = 0
             THEN [ok |-> TRUE, value |-> parts, exc |-> NoExc]
             ELSE [ok |-> FALSE, value |-> <<>>,
                   exc |-> [kind |-> IF subcategory THEN "UnknownSubcategory"
                                     ELSE "UnknownCategory",
                            token |-> parts[bad]]]

\* _validate_category_field: cats.split("+"), each part looked up as it is
\* in self.subcategories or self.categories; the first part not found is
\* named by the exception.  A cell that is None has no split.
ValidateCategoryField(cats, subcategory) ==
    IF cats = None THEN [ok |-> FALSE, value |-> <<>>,
                         exc |-> [kind |-> "AttributeError"]]
    ELSE LET parts == Split(cats, "+")
             bad == FirstBad(parts, IF subcategory THEN subcategories
                                    ELSE categories)
         IN  IF bad = 0
             THEN [ok |-> TRUE, value |-> parts, exc |-> NoExc]
             ELSE [ok |-> FALSE, value |-> <<>>,
                   exc |-> [kind |-> IF subcategory THEN "UnknownSubcategory"
                                     ELSE "UnknownCategory",
                            token |-> parts[bad]]]

\* utils.parsing.validate_field: whether the column is there with a value
\* that is not empty once stripped.
validate_field(field, row) ==
    /\ field \in DOMAIN row
    /\ row[field] # None
    /\ Trim(row[field]) # <<>>

SimpleFields ==
    <<"streetAddress", "city", "zipCode", "phone", "webSite", "description">>

\* The closed vocabularies of .enums, by the column each validates.
EnumOf(field) ==
    CASE field = "state" -> {<<"N", "Y">>, <<"N", "J">>}
      [] field = "cost" -> {<<"F">>, <<"$">>}
      [] field = "gender" -> {<<"A">>, <<"F">>, <<"M">>}
      [] OTHER -> {<<"A">>, <<"B">>}

\* utils.parsing.validate_enum_field and validate_list_enum_field: absent
\* (None) for a missing or empty column; a value, or each "+"-separated
\* stripped token of a list, must be a member of the enum.
validate_enum(field, row, list) ==
    IF ~validate_field(field, row)
    THEN [ok |-> TRUE, absent |-> TRUE, value |-> None, exc |-> NoExc]
    ELSE LET raw == IF list THEN Split(row[field], "+") ELSE <<row[field]>>
             parts == [i \in DOMAIN raw |-> Trim(raw[i])]
             bad == FirstBad(parts, EnumOf(field))
         IN  IF bad # 0
             THEN [ok |-> FALSE, absent |-> FALSE, value |-> None,
                   exc |-> [kind |-> "InvalidEnumValue", field |-> field,
                            token |-> parts[bad]]]
             ELSE [ok |-> TRUE, absent |-> FALSE,
                   value |-> IF list THEN parts ELSE parts[1], exc |-> NoExc]

\* utils.parsing.parse_grade: "K-5" gives ("K", "5"); absent when empty.
parse_grade(raw) ==
    IF raw = None \/ Trim(raw) = <<>>
    THEN [ok |-> TRUE, absent |-> TRUE, value |-> <<>>, exc |-> NoExc]
    ELSE LET parts == Split(Trim(raw), "-")
         IN  IF Len(parts) = 2 /\ parts[1] # <<>> /\ parts[2] # <<>>
             THEN [ok |-> TRUE, absent |-> FALSE, value |-> parts, exc |-> NoExc]
             ELSE [ok |-> FALSE, absent |-> FALSE, value |-> <<>>,
                   exc |-> [kind |-> "InvalidGradeFormat"]]

\* The enum columns in the order _parse_row validates them (lines 135-161).
EnumSteps ==
    << [field |-> "state", list |-> FALSE],
       [field |-> "careerInterest", list |-> TRUE],
       [field |-> "cost", list |-> FALSE],
       [field |-> "instruction", list |-> TRUE],
       [field |-> "boarding", list |-> TRUE],
       [field |-> "gender", list |-> FALSE],
       [field |-> "locationLimit", list |-> TRUE] >>

\* The resource with the enum columns applied from step i on; the first
\* invalid one raises.
RECURSIVE ApplyEnums(_, _, _)
ApplyEnums(i, row, resource) ==
    IF i > Len(EnumSteps) THEN [ok |-> TRUE, value |-> resource, exc |-> NoExc]
    ELSE LET res == validate_enum(EnumSteps[i].field, row, EnumSteps[i].list)
         IN  IF ~res.ok THEN res
             ELSE ApplyEnums(i + 1, row,
                      IF res.absent THEN resource
                      ELSE [resource EXCEPT ![EnumSteps[i].field] = res.value])

\* ResourceDto as _parse_row constructs it (lines 92-102); the attributes
\* the constructor is not given start as None.
NewResource ==
    [a \in Attrs |-> IF a = "id" THEN 0 ELSE None]

\* The loop of _parse_row over the simple fields (lines 111-120), from the
\* i-th on: a field with a value is copied from the row as it is.
RECURSIVE ApplySimple(_, _, _)
ApplySimple(i, row, resource) ==
    IF i > Len(SimpleFields) THEN resource
    ELSE ApplySimple(i + 1, row,
             IF validate_field(SimpleFields[i], row)
             THEN [resource EXCEPT ![SimpleFields[i]] = row[SimpleFields[i]]]
             ELSE resource)

\* _parse_row: the record of a row, or the exception of the first check
\* that fails; log is self.err_log before the call, .log after it.
ParseRow(row, log) ==
    LET req == ValidateRequiredFields(row, log)
        fail(exc) == [ok |-> FALSE, value |-> NewResource, exc |-> exc,
                      log |-> req.log]
    IN  IF req.err THEN fail(req.exc)
        ELSE
        LET r1 == ApplySimple(1, row,
                      [NewResource EXCEPT !.businessName = row["businessName"]])
            cat == ValidateCategoryField(row["category"], FALSE)
        IN  IF ~cat.ok THEN fail(cat.exc)
            ELSE
            LET sub == ValidateCategoryField(row["subCategory"], TRUE)
            IN  IF ~sub.ok THEN fail(sub.exc)
                ELSE
                LET r2 == [r1 EXCEPT !.category = cat.value,
                                     !.subCategory = sub.value]
                    grade == IF "GRADELEVEL" \in DOMAIN row
                             THEN parse_grade(row["GRADELEVEL"])
                             ELSE [ok |-> TRUE, absent |-> TRUE, value |-> <<>>,
                                   exc |-> NoExc]
                IN  IF ~grade.ok THEN fail(grade.exc)
                    ELSE
                    LET r3 == IF grade.absent THEN r2
                              ELSE [r2 EXCEPT !.startGrade = grade.value[1],
                                              !.endGrade = grade.value[2]]
                        enums == ApplyEnums(1, row, r3)
                    IN  IF ~enums.ok THEN fail(enums.exc)
                        ELSE [ok |-> TRUE, value |-> enums.value,
                              exc |-> NoExc, log |-> req.log]

(***************************************************************************)
(* Files: what a task reads.                                               *)
(***************************************************************************)
\* reader.fieldnames of a file: None for an empty file.
HeaderChoices ==
    { <<"businessName", "category", "subCategory", "phone">>,
      <<"category", "subCategory", "businessName">>,
      <<"businessName", "category">>,
      <<"phone">>,
      <<"businessName", "bogus", "category", "junk">>,
      None }

\* The data lines of a file, as lists of cells (blank lines, which
\* csv.DictReader skips, are left out).
LineChoices ==
    { << <<"A", "c">>, <<"T">>, <<"m">>, <<"5">> >>,
      << <<"B">>, <<"T", "+", "X">>, <<"m">> >>,
      << <<>>, <<"T", "+", "M", "+", "T">>, <<"m">>, <<>> >>,
      << <<"T">>, <<"m">> >>,
      << <<"T">>, <<"m">>, <<"A", "c">> >>,
      << <<"T">> >> }

\* A header name _validate_column_names rejects.
InvalidField(field) == field \notin Attrs /\ field \notin allowed_fields

\* A variant of ValidateColumnNames that reports at the first invalid name.
ValidateColumnNamesFirstOnly(fp, fields, log) ==
    IF fields = None
    THEN [err |-> TRUE, log |-> log, exc |-> [kind |-> "TypeError"]]
    ELSE LET bad == SelectSeq(fields, InvalidField)
             newlog == IF bad = <<>> THEN log
                       ELSE Append(log, FieldMsg(fp, bad[1]))
         IN  [err |-> bad # <<>>, log |-> newlog,
              exc |-> [kind |-> "InvalidColumns", fp |-> fp, listed |-> newlog]]

\* _validate_column_names: every invalid name of the header is logged, then
\* the exception carries the whole of self.err_log.  The header of an empty
\* file is None, which the loop cannot iterate.
ValidateColumnNames(fp, fields, log) ==
    IF fields = None
    THEN [err |-> TRUE, log |-> log, exc |-> [kind |-> "TypeError"]]
    ELSE LET bad == SelectSeq(fields, InvalidField)
             newlog == log \o [i \in 1..Len(bad) |-> FieldMsg(fp, bad[i])]
         IN  [err |-> bad # <<>>, log |-> newlog,
              exc |-> [kind |-> "InvalidColumns", fp |-> fp, listed |-> newlog]]

(***************************************************************************)
(* The event loop: _parse_all gathers one _parse_csv task per file.        *)
(* _parse_csv opens its file with the blocking open() and awaits only      *)
(* _parse_row, which awaits nothing: a task never yields to the loop       *)
(* between its first step and its end.                                     *)
(***************************************************************************)
NoTask == ""

NewTask == [st |-> "none", header |-> <<>>, lines |-> <<>>, n_rows |-> 0,
            exc |-> NoExc, log0 |-> 0]

NoFuture == [state |-> "none", children |-> <<>>, nfinished |-> 0,
             exc |-> NoExc, results |-> <<>>]

\* The orders in which "for fp in self.files" may visit a set.
Orders(S) ==
    {o \in [1..Cardinality(S) -> S] : \A i, j \in DOMAIN o : o[i] = o[j] => i = j}

\* A variant of call_soon: the handle goes to the head of the queue.
call_soon_first(q, handle) == <<handle>> \o q

\* loop.call_soon: the handle runs after those already scheduled.
call_soon(q, handle) == Append(q, handle)

\* loop.create_task for each coroutine of the list, in order.
RECURSIVE CreateTasks(_, _)
CreateTasks(order, q) ==
    IF order = <<>> THEN q
    ELSE CreateTasks(Tail(order),
                     call_soon(q, [kind |-> "step", of |-> Head(order)]))

RECURSIVE Sum(_)
Sum(ns) == IF ns = <<>> THEN 0 ELSE Head(ns) + Sum(Tail(ns))

\* _parse_all up to its await: one coroutine per file, gathered.  With no
\* file, gather() is done at once and sum([]) is returned.
ParseAll ==
    /\ pc = "vocab"
    /\ IF files = {}
       THEN /\ pc' = "done"
            /\ n_rows' = 0
            /\ UNCHANGED loopVars
       ELSE \E order \in Orders(files) :
              /\ queue' = CreateTasks(order, queue)
              /\ task' = [f \in CsvFiles |->
                            IF f \in files THEN [NewTask EXCEPT !.st = "ready"]
                            ELSE task[f]]
              /\ outer' = [NoFuture EXCEPT !.state = "pending",
                                           !.children = order]
              /\ pc' = "parsing"
              /\ UNCHANGED <<n_rows, running>>
    /\ UNCHANGED <<parserVars, raised, origin, fetches, probe, up>>

\* The end of a task, by return or by exception: its done callbacks are
\* scheduled.
Settle(q, f) == call_soon(q, [kind |-> "done_cb", of |-> f])

\* The first step of a task: _parse_csv opens the file, builds the reader
\* and validates the header (lines 71-78).
StartTask ==
    /\ running = NoTask
    /\ queue # <<>>
    /\ Head(queue).kind = "step"
    /\ LET f == Head(queue).of IN
       \E h \in HeaderChoices :
         LET v == ValidateColumnNames(f, h, err_log) IN
         /\ err_log' = v.log
         /\ IF v.err
            THEN /\ task' = [task EXCEPT ![f].st = "failed", ![f].header = h,
                                         ![f].exc = v.exc,
                                         ![f].log0 = Len(err_log)]
                 /\ running' = NoTask
                 /\ queue' = Settle(Tail(queue), f)
            ELSE /\ task' = [task EXCEPT ![f].st = "running", ![f].header = h,
                                         ![f].log0 = Len(err_log)]
                 /\ running' = f
                 /\ queue' = Tail(queue)
    /\ UNCHANGED <<pc, files, resources, verbose_flag, post_flag, rollback_flag,
                   categories, subcategories, raised, n_rows, outer, origin,
                   fetches, probe, up>>

\* A variant of RowOutcome: a row whose normalization raises is skipped and
\* the loop goes on.
RowOutcomeSkip(res) == "running"

\* The state of a task after _parse_row: nothing catches its exception,
\* which ends the loop over the rows and the task (lines 81-84).
RowOutcome(res) == IF res.ok THEN "running" ELSE "failed"

\* A variant of AppendResource: a record is added unless an equal one is
\* there.
AppendResourceUnique(rs, r) == IF r \in Range(rs) THEN rs ELSE Append(rs, r)

\* self.resources.append(res)
AppendResource(rs, r) == Append(rs, r)

\* One turn of "for row in reader": the next data line is read, normalized
\* and, if valid, appended (lines 81-85).
ReadRow ==
    /\ running # NoTask
    /\ Len(task[running].lines) < MaxRows
    /\ LET f == running IN
       \E line \in LineChoices :
         LET res == ParseRow(DictRow(task[f].header, line), err_log)
             st == RowOutcome(res)
         IN
         /\ err_log' = res.log
         /\ resources' = IF res.ok THEN AppendResource(resources, res.value)
                         ELSE resources
         /\ origin' = IF res.ok THEN Append(origin, f) ELSE origin
         /\ task' = [task EXCEPT ![f].lines = Append(@, line),
                                 ![f].n_rows = IF res.ok THEN @ + 1 ELSE @,
                                 ![f].st = st,
                                 ![f].exc = res.exc]
         /\ running' = IF st = "running" THEN f ELSE NoTask
         /\ queue' = IF st = "running" THEN queue ELSE Settle(queue, f)
    /\ UNCHANGED <<pc, files, verbose_flag, post_flag, rollback_flag,
                   categories, subcategories, raised, n_rows, outer, fetches,
                   probe, up>>

\* The reader is exhausted: _parse_csv returns n_rows (line 87).
EndOfFile ==
    /\ running # NoTask
    /\ task' = [task EXCEPT ![running].st = "done"]
    /\ running' = NoTask
    /\ queue' = Settle(queue, running)
    /\ UNCHANGED <<pc, parserVars, raised, n_rows, outer, origin, fetches,
                   probe, up>>

\* gather's callback on a finished child: the first exception is set on the
\* outer future at once; the result list is set when every child is done.
\* Setting the outer future schedules the wake-up of _parse_all.
DoneCallback ==
    /\ running = NoTask
    /\ queue # <<>>
    /\ Head(queue).kind = "done_cb"
    /\ LET f == Head(queue).of
           n == outer.nfinished + 1
       IN  IF outer.state # "pending"
           THEN /\ outer' = [outer EXCEPT !.nfinished = n]
                /\ queue' = Tail(queue)
           ELSE IF task[f].st = "failed"
           THEN /\ outer' = [outer EXCEPT !.nfinished = n,
                                          !.state = "exception",
                                          !.exc = task[f].exc]
                /\ queue' = call_soon(Tail(queue), [kind |-> "wakeup", of |-> NoTask])
           ELSE IF n = Len(outer.children)
           THEN /\ outer' = [outer EXCEPT
                                !.nfinished = n,
                                !.state = "result",
                                !.results = [i \in DOMAIN outer.children |->
                                               task[outer.children[i]].n_rows]]
                /\ queue' = call_soon(Tail(queue), [kind |-> "wakeup", of |-> NoTask])
           ELSE /\ outer' = [outer EXCEPT !.nfinished = n]
                /\ queue' = Tail(queue)
    /\ UNCHANGED <<pc, parserVars, raised, n_rows, running, task, origin,
                   fetches, probe, up>>

\* _parse_all resumes from its await: the exception of gather leaves
\* _parse_all and parse, or the sum of the results is returned (line 68).
Wakeup ==
    /\ running = NoTask
    /\ queue # <<>>
    /\ Head(queue).kind = "wakeup"
    /\ queue' = Tail(queue)
    /\ IF outer.state = "exception"
       THEN /\ pc' = "failed"
            /\ raised' = outer.exc
            /\ UNCHANGED n_rows
       ELSE /\ pc' = "done"
            /\ n_rows' = Sum(outer.results)
            /\ UNCHANGED raised
    /\ UNCHANGED <<parserVars, running, task, outer, origin, fetches, probe, up>>

(***************************************************************************)
(* The uploader: ResourceUploader.upload.                                  *)
(***************************************************************************)
NoFile == <<"None">>

NoUpload == [pc |-> "none", resources |-> <<>>, i |-> 1, n_uploaded |-> 0,
             err |-> 0, uploaded |-> <<>>, err_log |-> <<>>, file |-> NoFile,
             result |-> 0, exc |-> NoExc,
             posted |-> <<>>,      \* history: the indices of the records posted
             responses |-> <<>>]   \* history: the answer to each POST

\* str(id) for the ids the API assigns.
Str(id) == CASE id = 7 -> <<"7">>
             [] id = 12 -> <<"1", "2">>
             [] OTHER -> <<"0">>

\* What the API answers to one POST: a status and, under data.id, an id.
Responses == {[status |-> 200, id |-> 7], [status |-> 200, id |-> 12],
              [status |-> 500, id |-> 0]}

\* The records handed to upload differ in their business name.
UploadChoices ==
    {[NewResource EXCEPT !.businessName = n] : n \in {<<"A">>, <<"B">>}}

UploadLists == UNION {[1..n -> UploadChoices] : n \in 0..MaxUpload}

\* A variant of WriteWhen: the ids are written only when no record failed.
WriteWhenSkipOnError(u) == Len(u.uploaded) > 0 /\ u.err = 0

\* The condition under which the rollback file is written (line 40).
WriteWhen(u) == Len(u.uploaded) > 0

\* One turn of the loop over the resources (lines 22-36): the record is
\* posted; a 200 counts as uploaded and its id is kept, any other status is
\* logged and counted as an error.
Post ==
    /\ up.pc = "post"
    /\ up.i <= Len(up.resources)
    /\ \E resp \in Responses :
         up' = [up EXCEPT
                  !.responses = Append(@, resp),
                  !.posted = Append(@, up.i),
                  !.i = @ + 1,
                  !.n_uploaded = IF resp.status = 200 THEN @ + 1 ELSE @,
                  !.uploaded = IF resp.status = 200 THEN Append(@, resp.id)
                               ELSE @,
                  !.err_log = IF resp.status = 200 THEN @
                              ELSE Append(@, [what |-> "failed_to_upload",
                                              name |-> up.resources[up.i].businessName,
                                              data |-> resp]),
                  !.err = IF resp.status = 200 THEN @ ELSE @ + 1]
    /\ UNCHANGED <<pc, parserVars, raised, n_rows, loopVars, origin, fetches,
                   probe>>

\* After the loop (lines 38-51): the ids of the uploaded records are
\* written, joined by blanks, to the rollback file of the process.
WriteRollback ==
    /\ up.pc = "post"
    /\ up.i > Len(up.resources)
    /\ up' = [up EXCEPT
                !.pc = "written",
                !.file = IF WriteWhen(up)
                         THEN Join([k \in DOMAIN up.uploaded |->
                                      Str(up.uploaded[k])], " ")
                         ELSE @]
    /\ UNCHANGED <<pc, parserVars, raised, n_rows, loopVars, origin, fetches,
                   probe>>

\* The end of upload (lines 53-58): ResourceUploadError if a record failed,
\* the number of uploaded records otherwise.
FinishUpload ==
    /\ up.pc = "written"
    /\ up' = IF up.err > 0
             THEN [up EXCEPT !.pc = "raised",
                             !.exc = [kind |-> "ResourceUploadError",
                                      n |-> up.err, listed |-> up.err_log]]
             ELSE [up EXCEPT !.pc = "returned", !.result = up.n_uploaded]
    /\ UNCHANGED <<pc, parserVars, raised, n_rows, loopVars, origin, fetches,
                   probe>>

(***************************************************************************)
(* One application of the category validator and of the row normalizer to  *)
(* cells drawn from every string of a bounded length.                      *)
(***************************************************************************)
Strings(alphabet) == UNION {[1..n -> alphabet] : n \in 0..MaxLen}

NoProbe == [st |-> "none", cats |-> <<>>, subs |-> <<>>,
            outC |-> [ok |-> FALSE, value |-> <<>>, exc |-> NoExc],
            outS |-> [ok |-> FALSE, value |-> <<>>, exc |-> NoExc]]

\* _validate_category_field on the category cell and on the subcategory cell.
ProbeValidate ==
    /\ probe.st = "input"
    /\ probe' = [probe EXCEPT !.st = "validated",
                              !.outC = ValidateCategoryField(probe.cats, FALSE),
                              !.outS = ValidateCategoryField(probe.subs, TRUE)]
    /\ UNCHANGED <<pc, parserVars, raised, n_rows, loopVars, origin, fetches, up>>

\* _parse_row on a row with these two cells, and the append of _parse_csv.
ProbeParseRow ==
    /\ probe.st = "validated"
    /\ LET row == DictRow(<<"businessName", "category", "subCategory">>,
                          << <<"A">>, probe.cats, probe.subs >>)
           res == ParseRow(row, err_log)
       IN  /\ probe' = [probe EXCEPT !.st = "parsed"]
           /\ err_log' = res.log
           /\ resources' = IF res.ok THEN AppendResource(resources, res.value)
                           ELSE resources
    /\ UNCHANGED <<pc, files, verbose_flag, post_flag, rollback_flag, categories,
                   subcategories, raised, n_rows, loopVars, origin, fetches, up>>

(***************************************************************************)
(* Specifications.                                                         *)
(***************************************************************************)
InitParser ==
    /\ files = {}
    /\ resources = <<>>
    /\ verbose_flag = FALSE
    /\ post_flag = FALSE
    /\ rollback_flag = FALSE
    /\ err_log = <<>>
    /\ raised = NoExc
    /\ n_rows = 0
    /\ queue = <<>>
    /\ running = NoTask
    /\ task = [f \in CsvFiles |-> NewTask]
    /\ outer = NoFuture
    /\ origin = <<>>

\* A session: CSVParser() and then parse().
Init ==
    /\ InitParser
    /\ pc = "start"
    /\ categories = {}
    /\ subcategories = {}
    /\ fetches = 0
    /\ probe = NoProbe
    /\ up = NoUpload

Next ==
    \/ ProcessArgs
    \/ FetchCategories
    \/ ParseAll
    \/ StartTask
    \/ ReadRow
    \/ EndOfFile
    \/ DoneCallback
    \/ Wakeup

Spec == Init /\ [][Next]_vars

\* The validators on arbitrary cells, the vocabulary loaded.
InitCat ==
    /\ InitParser
    /\ pc = "probe"
    /\ categories = Range(FetchedCategories)
    /\ subcategories = Range(FetchedSubcategories)
    /\ fetches = 1
    /\ up = NoUpload
    /\ \E c \in Strings({"T", "X", "+", " "}), s \in Strings({"m", "+"}) :
         probe = [NoProbe EXCEPT !.st = "input", !.cats = c, !.subs = s]

NextCat == ProbeValidate \/ ProbeParseRow

SpecCat == InitCat /\ [][NextCat]_vars

\* upload on a list of records, in a process that has uploaded nothing yet.
InitUpload ==
    /\ InitParser
    /\ pc = "upload"
    /\ categories = {}
    /\ subcategories = {}
    /\ fetches = 0
    /\ probe = NoProbe
    /\ \E rs \in UploadLists :
         up = [NoUpload EXCEPT !.pc = "post", !.resources = rs]

NextUpload == Post \/ WriteRollback \/ FinishUpload

SpecUpload == InitUpload /\ [][NextUpload]_vars

(***************************************************************************)
(* Properties.                                                             *)
(***************************************************************************)
\* The records of self.resources that the task of file f appended, in order.
RECURSIVE RecordsFrom(_, _)
RecordsFrom(i, f) ==
    IF i > Len(resources) THEN <<>>
    ELSE (IF origin[i] = f THEN <<resources[i]>> ELSE <<>>) \o RecordsFrom(i + 1, f)

RecordsOf(f) == RecordsFrom(1, f)

\* The normalization of the i-th data line file f's task has read.
Norm(f, i) == ParseRow(DictRow(task[f].header, task[f].lines[i]), <<>>)

\* The task of f ended by an exception of a row, not of the header.
RowFailed(f) ==
    /\ task[f].st = "failed"
    /\ task[f].exc.kind \notin {"InvalidColumns", "TypeError"}

\* C1: parseFile is fail-fast in file order.  The data lines a task has
\* normalized are task[f].lines.  While a task runs or once it returned,
\* every line it read was valid and self.resources holds their records in
\* row order.  Once a task ended on a row, that row k is the last line it
\* ever read and the first invalid one, the task ended with that row's
\* exception, and the collection holds of this file exactly the records of
\* rows 1..k-1, in row order.
FailFastInFileOrder ==
    \A f \in CsvFiles :
      LET k == Len(task[f].lines)
          recs == RecordsOf(f)
          valid(i) == LET n == Norm(f, i) IN n.ok /\ recs[i] = n.value
      IN
      /\ task[f].st \in {"running", "done"} =>
           /\ Len(recs) = k
           /\ \A i \in 1..k : valid(i)
           /\ task[f].n_rows = k
           /\ task[f].exc = NoExc
      /\ RowFailed(f) =>
           /\ k >= 1
           /\ Len(recs) = k - 1
           /\ \A i \in 1..(k - 1) : valid(i)
           /\ LET n == Norm(f, k) IN ~n.ok /\ task[f].exc.kind = n.exc.kind
           /\ task[f].n_rows = k - 1

\* A file failed on its second row, its first row's record is in the
\* collection, and the failure has left parse.
FailFastWitness ==
    \E f \in CsvFiles :
      /\ RowFailed(f)
      /\ Len(task[f].lines) = 2
      /\ Len(RecordsOf(f)) = 1
      /\ pc = "failed"
      /\ raised = task[f].exc

\* C2: when every file is valid, whatever the order in which the tasks ran,
\* _parse_all returns the sum of the files' data-row counts and
\* self.resources holds exactly that many records, those of every file's
\* rows; a run whose tasks all returned does not fail, and _parse_all is
\* never left waiting with nothing scheduled.
ParseAllCountsEveryRow ==
    /\ pc = "done" =>
         /\ \A f \in files : task[f].st = "done"
         /\ n_rows = Sum([i \in DOMAIN outer.children |->
                            Len(task[outer.children[i]].lines)])
         /\ Len(resources) = n_rows
         /\ \A f \in files :
              LET recs == RecordsOf(f) IN
              /\ Len(recs) = Len(task[f].lines)
              /\ \A i \in DOMAIN recs : recs[i] = Norm(f, i).value
    /\ (outer.state # "none" /\ \A f \in files : task[f].st = "done") =>
         /\ pc # "failed"
         /\ outer.state # "exception"
    /\ ~(pc = "parsing" /\ queue = <<>> /\ running = NoTask)

\* Two valid files with rows were parsed, the file of directory d first.
ParseAllWitness ==
    /\ pc = "done"
    /\ Cardinality(files) = 2
    /\ n_rows = 3
    /\ origin[1] = "d/c.csv"
    /\ \A f \in files : Len(task[f].lines) >= 1
    /\ \E i, j \in DOMAIN resources : i # j /\ resources[i] = resources[j]

\* The required fields that are no name of the header of f: csv.DictReader
\* gives every row of a file the header's names as keys.
MissingOf(f) ==
    {m \in {"businessName", "category", "subCategory"} :
       m \notin Range(task[f].header)}

\* The entries file f's task added to the log before it failed.
OwnEntries(f) ==
    SubSeq(task[f].exc.listed, task[f].log0 + 1, Len(task[f].exc.listed))

\* C3: a row that lacks one of businessName, category, subCategory as a key
\* fails with MissingRequiredField whatever its cells hold, before any
\* record is made, and the failure lists each missing field once; a row
\* with the three keys does not fail so.
RequiredFieldsAllListed ==
    \A f \in CsvFiles :
      (task[f].st \in {"running", "done", "failed"} /\ Len(task[f].lines) >= 1) =>
        IF MissingOf(f) # {}
        THEN /\ task[f].st = "failed"
             /\ task[f].exc.kind = "MissingRequiredField"
             /\ Len(task[f].lines) = 1
             /\ RecordsOf(f) = <<>>
             /\ Len(OwnEntries(f)) = Cardinality(MissingOf(f))
             /\ \A m \in MissingOf(f) : RequiredMsg(m) \in Range(OwnEntries(f))
        ELSE task[f].exc.kind # "MissingRequiredField"

\* A row missing all three required keys failed, with other entries
\* already in the log.
RequiredFieldsWitness ==
    \E f \in CsvFiles :
      /\ task[f].st = "failed"
      /\ task[f].exc.kind = "MissingRequiredField"
      /\ Cardinality(MissingOf(f)) = 3
      /\ task[f].log0 > 0

\* The positions of the header of f that hold an invalid name.
InvalidPositions(f) ==
    {i \in DOMAIN task[f].header :
       task[f].header[i] \notin (Attrs \cup allowed_fields)}

\* C5: header validation fails with InvalidColumns exactly when the header
\* holds a name that is neither an attribute nor an allowed extra field;
\* then one entry per invalid name of the header has been logged, no row of
\* the file is normalized and no record of it is in the collection.
InvalidColumnsIffInvalidName ==
    \A f \in CsvFiles :
      (task[f].st \in {"running", "done", "failed"}) =>
        IF task[f].header = None
        THEN task[f].st = "failed" /\ task[f].exc.kind = "TypeError"
        ELSE /\ task[f].exc.kind = "InvalidColumns" <=> InvalidPositions(f) # {}
             /\ InvalidPositions(f) # {} =>
                  /\ task[f].st = "failed"
                  /\ task[f].lines = <<>>
                  /\ task[f].n_rows = 0
                  /\ RecordsOf(f) = <<>>
                  /\ Len(OwnEntries(f)) = Cardinality(InvalidPositions(f))
                  /\ \A i \in InvalidPositions(f) :
                       FieldMsg(f, task[f].header[i]) \in Range(OwnEntries(f))
                  /\ SubSeq(err_log, 1, Len(task[f].exc.listed)) = task[f].exc.listed

\* A header with two invalid names was rejected, the second name after a
\* valid one.
InvalidColumnsWitness ==
    \E f \in CsvFiles :
      /\ task[f].st = "failed"
      /\ task[f].exc.kind = "InvalidColumns"
      /\ Cardinality(InvalidPositions(f)) = 2
      /\ 4 \in InvalidPositions(f)

\* C6: every record of the collection has a businessName that is neither
\* None nor the empty string.
BusinessNameNeverEmpty ==
    \A i \in DOMAIN resources :
      resources[i].businessName # None /\ resources[i].businessName # <<>>

\* C8: sibling tasks are not cancelled.  Once the failure of a file has
\* reached the caller of _parse_all, every file's task has run to its own
\* return or exception; no task is left unstarted or mid-file.
FailureAfterAllSettled ==
    (pc = "failed" /\ outer.state = "exception") =>
       /\ \A f \in files : task[f].st \in {"done", "failed"}
       /\ running = NoTask
       /\ \E f \in files : task[f].st = "failed" /\ raised = task[f].exc

\* The first task failed and the second still parsed its rows before the
\* failure reached the caller.
SiblingsWitness ==
    /\ pc = "failed"
    /\ Len(outer.children) = 2
    /\ task[outer.children[1]].st = "failed"
    /\ task[outer.children[2]].st = "done"
    /\ task[outer.children[2]].n_rows >= 1

\* C10: the message of a header failure or of a required-field failure of a
\* file lists the problems of that file only.
ErrorsAttributedToOwnFile ==
    \A f \in CsvFiles :
      /\ (task[f].st = "failed" /\ task[f].exc.kind = "InvalidColumns") =>
           /\ Len(task[f].exc.listed) = Cardinality(InvalidPositions(f))
           /\ \A e \in Range(task[f].exc.listed) :
                e.what = "not_a_valid_field" /\ e.fp = f
      /\ (task[f].st = "failed" /\ task[f].exc.kind = "MissingRequiredField") =>
           /\ Len(task[f].exc.listed) = Cardinality(MissingOf(f))
           /\ \A e \in Range(task[f].exc.listed) :
                e.what = "required_row" /\ e.field \in MissingOf(f)

\* A path of the command line was not found.
PathNotFound == \E i \in DOMAIN err_log : err_log[i].what = "path_does_not_exist"

SessionInv ==
    /\ fetches \in {0, 1}
    /\ pc = "start" => fetches = 0
    /\ (PathNotFound \/ raised.kind \in {"Usage", "FileNotFoundError"}) =>
         /\ pc = "failed"
         /\ fetches = 0
         /\ categories = {} /\ subcategories = {}
         /\ \A f \in CsvFiles : task[f].st = "none"
         /\ resources = <<>>
    /\ ( \/ \E f \in CsvFiles : task[f].st # "none"
         \/ resources # <<>>
         \/ pc \in {"vocab", "parsing", "done"} ) =>
         /\ fetches = 1
         /\ categories = Range(FetchedCategories)
         /\ subcategories = Range(FetchedSubcategories)

SessionStep ==
    /\ pc' # pc =>
         <<pc, pc'>> \in {<<"start", "args_done">>, <<"start", "failed">>,
                          <<"args_done", "vocab">>, <<"args_done", "failed">>,
                          <<"vocab", "parsing">>, <<"vocab", "done">>,
                          <<"parsing", "done">>, <<"parsing", "failed">>}
    /\ pc \notin {"start", "args_done"} =>
         /\ fetches' = fetches
         /\ categories' = categories
         /\ subcategories' = subcategories

\* C9: a session goes from start to the arguments, the vocabulary, the
\* parsing and then done or failed, never back.  The vocabulary is fetched
\* at most once, only after the paths were all found, and before any file's
\* task starts; whenever a task has started or a record exists it was
\* fetched once and the two sets are the fetched ones; they never change
\* afterwards.  When a path is not found or no argument is given, nothing
\* is fetched and no file is parsed.
SessionFetchesVocabularyOnce == []SessionInv /\ [][SessionStep]_vars

\* A session that parsed rows to the end.
SessionWitness ==
    /\ pc = "done"
    /\ fetches = 1
    /\ Len(resources) >= 2

\* The ids of the records the API accepted, in the order of the requests.
AcceptedIds ==
    LET ok == SelectSeq(up.responses, LAMBDA r : r.status = 200)
    IN  [k \in DOMAIN ok |-> ok[k].id]

\* The positions of the records the API refused.
RefusedAt == {k \in DOMAIN up.responses : up.responses[k].status # 200}

FirstUnknownPiece(cats, t, vocabulary) ==
    \E a \in 0..Len(cats) :
      /\ a = 0 \/ cats[a] = "+"
      /\ a + Len(t) <= Len(cats)
      /\ SubSeq(cats, a + 1, a + Len(t)) = t
      /\ a + Len(t) = Len(cats) \/ cats[a + Len(t) + 1] = "+"
      /\ a > 0 => \A q \in Range(Split(SubSeq(cats, 1, a - 1), "+")) :
                    q \in vocabulary

\* What the validator owes for one cell, with no trimming.
ExactOutcome(cats, out, vocabulary, kind) ==
    IF out.ok
    THEN /\ Len(out.value) >= 1
         /\ Join(out.value, "+") = cats
         /\ \A i \in DOMAIN out.value :
              /\ "+" \notin Range(out.value[i])
              /\ out.value[i] \in vocabulary
    ELSE /\ out.exc.kind = kind
         /\ "+" \notin Range(out.exc.token)
         /\ out.exc.token \notin vocabulary
         /\ FirstUnknownPiece(cats, out.exc.token, vocabulary)

\* C4 as amended: the validator splits the cell on "+" and looks each part
\* up as it is, blanks included, in the set of the snapshot; it fails
\* naming the first part that is not in the set, whatever its position, and
\* otherwise returns the parts in input order, duplicates kept.  Every
\* record of the collection has a non-empty category and subCategory whose
\* elements are all in the snapshot.
CategoryValidatorExactParts ==
    /\ probe.st \in {"validated", "parsed"} =>
         /\ ExactOutcome(probe.cats, probe.outC, categories, "UnknownCategory")
         /\ ExactOutcome(probe.subs, probe.outS, subcategories, "UnknownSubcategory")
    /\ \A i \in DOMAIN resources :
         /\ resources[i].category # <<>>
         /\ resources[i].subCategory # <<>>
         /\ Range(resources[i].category) \subseteq categories
         /\ Range(resources[i].subCategory) \subseteq subcategories
    /\ probe.st = "parsed" =>
         (resources # <<>> <=> (probe.outC.ok /\ probe.outS.ok))

\* "T+X" failed naming its second part, and no record was made.
CategoryValidatorWitness ==
    /\ probe.st = "parsed"
    /\ probe.cats = <<"T", "+", "X">>
    /\ ~probe.outC.ok
    /\ probe.outC.exc.token = <<"X">>
    /\ resources = <<>>

\* C4: the validator splits the cell on "+", trims each part, fails naming
\* the first trimmed part that is not in the set, and otherwise returns the
\* trimmed parts in input order.
CategoryValidatorTrimsParts ==
    probe.st \in {"validated", "parsed"} =>
      /\ probe.outC = ValidateCategoryFieldTrimmed(probe.cats, FALSE)
      /\ probe.outS = ValidateCategoryFieldTrimmed(probe.subs, TRUE)

=============================================================================
